---- MODULE Spec2Model ----
(***************************************************************************)
(* Model of backend/analyzers/dynamic_analyzer.py: the ExecutionTracer     *)
(* hook (trace_calls and its four handlers), the worker that runs          *)
(* execute_code, and the supervising DynamicAnalyzer.analyze.              *)
(*                                                                         *)
(* The traced program is an event source: it emits call / line / return /  *)
(* exception events with Python's nesting discipline, binds names, writes  *)
(* to standard output, and ends normally, with an uncaught exception, or   *)
(* never.  Recording ceilings are scaled down; every scaled value names    *)
(* the source constant it stands for.                                      *)
(***************************************************************************)
EXTENDS Integers, Sequences, FiniteSets, TLC

\* ------------------------------------------------------------------ bounds
\* ExecutionTracer.MAX_SNAPSHOTS (1000 in the source), scaled.
MAX_SNAPSHOTS == 3
\* ExecutionTracer.MAX_EXECUTION_FLOW (5000 in the source), scaled.
MAX_EXECUTION_FLOW == 4
\* ExecutionTracer.MAX_FUNCTION_CALLS (500 in the source), scaled.
MAX_FUNCTION_CALLS == 3
\* DynamicAnalyzer.MAX_OUTPUT_SIZE (10000 in the source), scaled.
MAX_OUTPUT_SIZE == 1
\* trace.execution_flow[:1000] in _compile_results, scaled.
FLOW_RESPONSE_LIMIT == 1
\* trace.variable_snapshots[:500] in _compile_results, scaled.
SNAPSHOT_RESPONSE_LIMIT == 1
\* Source lines of the traced program are 1..MaxLine.
MaxLine == 2
\* Function frames the traced program nests above the module frame.
MaxDepth == 2
\* Integer values the traced program computes are 1..MaxVal.
MaxVal == 1
\* Characters the traced program writes to standard output.
MaxOut == 2
\* analyze runs that execute concurrently in one process.
NumRuns == 2
\* The item cap of _safe_serialize (the literal 20 of the source).
ITEM_CAP == 2
\* Longest collection serialized.
MaxItems == 4

\* ------------------------------------------------------------------ values
NoneV == [k |-> "none", v |-> 0]
IntV(i) == [k |-> "int", v |-> i]
StrV(i) == [k |-> "str", v |-> i]
ObjV(i) == [k |-> "object", v |-> i]
\* Collections: a list, a tuple or a set with its elements in iteration
\* order, a dict with its items in insertion order.
ListV(items) == [k |-> "list", items |-> items]
TupleV(items) == [k |-> "tuple", items |-> items]
SetV(items) == [k |-> "set", items |-> items]
DictV(items) == [k |-> "dict", items |-> items]
\* An instance of a class whose __repr__ raises.
BrokenV == [k |-> "Broken", v |-> 0]
\* An instance of a subclass of list whose __len__ raises.
HostileV == [k |-> "L", items |-> <<>>]
\* The strings _safe_serialize builds.
MaxDepthExceeded == [k |-> "str", v |-> -1]
MoreItems(n) == [k |-> "str", v |-> n, text |-> "... (n more items)"]
DictMoreItems(n) == [k |-> "str", v |-> n, text |-> "(n more items)"]
SetMore(n) == [k |-> "str", v |-> n, text |-> "... (n more)"]
Placeholder(type_name) == [k |-> "str", v |-> 0, text |-> "<T object>",
                           type |-> type_name]
\* The outcome of a call that raises instead of returning.
Raised(kind) == [k |-> "raised", kind |-> kind]
IsRaised(outcome) == outcome.k = "raised"
Values == {NoneV} \cup {IntV(i) : i \in 1..MaxVal}
Lines == 1..MaxLine
ModuleName == "<module>"
FuncNames == {"f", "__exit__"}
\* Names beginning with "__" (var_name.startswith('__')).
DunderNames == {"__name__", "__builtins__"}
\* Names beginning with "@" (var_name.startswith('@')); none is bound here.
AtNames == {}
LifecycleScopes == {"__init__", "__enter__", "__exit__", "__call__"}
AssignNames == {"x"}
\* Exceptions the traced program raises: one derived from Exception, one
\* derived from BaseException only.
RaiseKinds == {"ZeroDivisionError", "SystemExit"}
NoExc == "none"
NoException == <<>>

\* type(value).__name__
TypeName(value) == IF value.k = "none" THEN "NoneType" ELSE value.k
\* isinstance(e, Exception)
IsException(kind) == kind \notin {"SystemExit", "KeyboardInterrupt", "GeneratorExit"}
\* str(e) of the exceptions modelled
Message(kind) ==
    CASE kind = "ZeroDivisionError" -> "division by zero"
      [] kind = "SyntaxError" -> "invalid syntax"
      [] OTHER -> ""
\* f"{type(e).__name__}: {str(e)}"
FormatException(kind) == <<kind, ": ", Message(kind)>>
\* f"TimeoutError: Execution exceeded {self.timeout} seconds"
TimeoutMessage == <<"TimeoutError", ": ", "Execution exceeded timeout seconds">>

MaxOf(a, b) == IF a >= b THEN a ELSE b
MinOf(a, b) == IF a <= b THEN a ELSE b
Last(s) == s[Len(s)]
Front(s) == SubSeq(s, 1, Len(s) - 1)
\* Mutant: the response slice that cuts nothing.
TakeEverything(s, n) == s
Take(s, n) == SubSeq(s, 1, MinOf(n, Len(s)))

VARIABLES
    parses,            \* whether source_code forms a valid program
    test_inputs,       \* analyze's test_inputs argument
    supPc,             \* position of analyze (the supervisor)
    timed_out,         \* analyze's local timed_out
    workerPc,          \* position of execute_code (the worker)
    settrace,          \* whether the worker thread has the hook installed
    progStack,         \* frames of the traced program, module frame first
    progExc,           \* exception propagating in the traced program
    exec_globals,      \* the run's global namespace, in insertion order
    stdout_capture,    \* the worker's stdout_capture buffer
    stderr_capture,    \* the worker's stderr_capture buffer
    result_container,  \* completed / stdout handed from worker to supervisor
    workerExc,         \* exception that left exec(), NoExc if none
    futureExc,         \* exception that left execute_code, NoExc if none
    tracer,            \* ExecutionTracer and its ExecutionTrace
    result,            \* what analyze returned, <<>> before that
    deadline,          \* history: whether the program was running at the
                       \* deadline, and what it had written by then
    invocations,       \* history: per call record, the invocation whose call
                       \* event created it and the writes to its return_value
    sys_stdout,        \* the process-wide sys.stdout: whose buffer it is
    runs,              \* the concurrent runs that share sys.stdout
    serializing        \* a value handed to _safe_serialize alone, and what
                       \* came back for it and for its serialization

\* The arguments of analyze.
inputs == <<parses, test_inputs>>
\* The state of the concurrent runs.
concurrent == <<sys_stdout, runs>>

vars == <<inputs, supPc, timed_out, workerPc, settrace, progStack, progExc,
          exec_globals, stdout_capture, stderr_capture, result_container, workerExc,
          futureExc, tracer, result, deadline, invocations, concurrent,
          serializing>>

\* ------------------------------------------------------- ExecutionTracer
\* ExecutionTracer.__init__ with a fresh ExecutionTrace.
NewTracer ==
    [variable_snapshots |-> <<>>, function_calls |-> <<>>,
     execution_flow |-> <<>>, loop_executions |-> <<>>,
     max_stack_depth |-> 0, stdout_output |-> <<>>,
     stderr_output |-> <<>>,
     exception |-> NoException, timed_out |-> FALSE,
     total_function_calls |-> 0, unique_functions_called |-> {},
     current_stack_depth |-> 0, loop_counters |-> <<>>,
     visited_lines |-> {}, function_frames |-> <<>>,
     function_call_stack |-> <<>>, stopped |-> FALSE]

\* isinstance(value, (list, tuple)), isinstance(value, dict): subclasses
\* included.
IsListOrTuple(value) == value.k \in {"list", "tuple", "L"}
\* len(value): raises for the subclass that overrides __len__ so.
LenRaises(value) == value.k = "L"
\* repr(value) raises.
ReprRaises(value) == value.k = "Broken"

\* The dictionary lookup d[name] on a sequence of [name, value] pairs.
Lookup(pairs, name) ==
    (CHOOSE i \in 1..Len(pairs) : pairs[i].name = name)
HasKey(pairs, name) == \E i \in 1..Len(pairs) : pairs[i].name = name
\* d[name] = value, keeping insertion order.
Bind(pairs, name, value) ==
    IF HasKey(pairs, name)
    THEN [pairs EXCEPT ![Lookup(pairs, name)].value = value]
    ELSE Append(pairs, [name |-> name, value |-> value])

\* A comprehension over outcomes: the first element that raises ends it.
FirstRaised(outcomes) ==
    LET raising == {i \in 1..Len(outcomes) : IsRaised(outcomes[i])}
    IN  IF raising = {} THEN 0
        ELSE CHOOSE i \in raising : \A j \in raising : i <= j

\* _safe_serialize: the depth test, the primitives, then lists and tuples,
\* dicts, sets, and the bounded repr of anything else.  A str is returned
\* as it is (the strings here are within MAX_VALUE_SIZE).
RECURSIVE SafeSerialize(_, _)
SafeSerialize(value, max_depth) ==
    IF max_depth <= 0 THEN MaxDepthExceeded
    ELSE IF value.k \in {"none", "bool", "int", "float"} THEN value
    ELSE IF value.k = "str" THEN value
    ELSE IF IsListOrTuple(value)
    THEN IF LenRaises(value) THEN Raised("RuntimeError")
         ELSE LET kept == IF Len(value.items) > ITEM_CAP
                          THEN SubSeq(value.items, 1, ITEM_CAP)
                          ELSE value.items
                  serialized == [i \in 1..Len(kept) |->
                                    SafeSerialize(kept[i], max_depth - 1)]
              IN  IF FirstRaised(serialized) # 0
                  THEN serialized[FirstRaised(serialized)]
                  ELSE IF Len(value.items) > ITEM_CAP
                  THEN ListV(serialized \o
                             <<MoreItems(Len(value.items) - ITEM_CAP)>>)
                  ELSE ListV(serialized)
    ELSE IF value.k = "dict"
    THEN LET kept == IF Len(value.items) > ITEM_CAP
                     THEN SubSeq(value.items, 1, ITEM_CAP)
                     ELSE value.items
             values == [i \in 1..Len(kept) |->
                            SafeSerialize(kept[i].value, max_depth - 1)]
             entries == [i \in 1..Len(kept) |->
                            [name |-> kept[i].name, value |-> values[i]]]
         IN  IF FirstRaised(values) # 0 THEN values[FirstRaised(values)]
             ELSE IF Len(value.items) > ITEM_CAP
             THEN DictV(Bind(entries, "...",
                             DictMoreItems(Len(value.items) - ITEM_CAP)))
             ELSE DictV(entries)
    ELSE IF value.k = "set"
    THEN ListV(SubSeq(value.items, 1, MinOf(ITEM_CAP, Len(value.items)))
               \o IF Len(value.items) > ITEM_CAP
                  THEN <<SetMore(Len(value.items) - ITEM_CAP)>>
                  ELSE <<>>)
    ELSE IF ReprRaises(value) THEN Placeholder(value.k)
    ELSE StrV(value.v)

\* The arguments captured by _handle_call: the declared parameters that are
\* bound in f_locals, serialized.
RECURSIVE CaptureArgs(_, _)
CaptureArgs(arg_names, f_locals) ==
    IF arg_names = <<>> THEN <<>>
    ELSE LET rest == CaptureArgs(Tail(arg_names), f_locals)
             arg_name == Head(arg_names)
         IN  IF HasKey(f_locals, arg_name)
             THEN <<[name |-> arg_name,
                     value |-> SafeSerialize(
                         f_locals[Lookup(f_locals, arg_name)].value, 3)]>>
                  \o rest
             ELSE rest

\* Mutant: the recursion test that never finds the name on the stack.
InStackNever(stack, name) == FALSE

\* func_name in self.function_call_stack
InStack(stack, name) == \E i \in 1..Len(stack) : stack[i] = name

\* _handle_call
HandleCall(t, frame) ==
    LET depth == t.current_stack_depth + 1
        is_recursive == InStack(t.function_call_stack, frame.fn)
        args == CaptureArgs(frame.params, frame.locals)
        t1 == [t EXCEPT !.current_stack_depth = depth,
                        !.max_stack_depth = MaxOf(@, depth),
                        !.function_frames = Append(@, frame.fn),
                        !.function_call_stack = Append(@, frame.fn)]
    IN  IF frame.fn # ModuleName
        THEN [t1 EXCEPT
                !.total_function_calls = @ + 1,
                !.unique_functions_called = @ \cup {frame.fn},
                !.function_calls = Append(@,
                    [function_name |-> frame.fn, line |-> frame.line,
                     arguments |-> args, return_value |-> NoneV,
                     stack_depth |-> depth,
                     is_recursive_call |-> is_recursive])]
        ELSE t1

\* The snapshot loop of _handle_line over frame.f_locals.items(), with its
\* filter and its break at the ceiling.
RECURSIVE SnapshotLocals(_, _, _, _)
SnapshotLocals(snapshots, f_locals, line_no, scope) ==
    IF f_locals = <<>> THEN snapshots
    ELSE LET var == Head(f_locals)
         IN  IF /\ var.name \notin DunderNames
                /\ var.name \notin AtNames
                /\ scope \notin LifecycleScopes
             THEN LET added == Append(snapshots,
                          [name |-> var.name,
                           value |-> SafeSerialize(var.value, 3),
                           value_type |-> TypeName(var.value),
                           line |-> line_no, scope |-> scope])
                  IN  IF Len(added) >= MAX_SNAPSHOTS THEN added
                      ELSE SnapshotLocals(added, Tail(f_locals), line_no, scope)
             ELSE SnapshotLocals(snapshots, Tail(f_locals), line_no, scope)

\* loop_counters.get(line, 0)
LoopCounter(loop_counters, line) ==
    IF line \in DOMAIN loop_counters THEN loop_counters[line] ELSE 0

\* Mutant: _handle_line counting the first visit of a line as well.
HandleLineCountsFirstVisit(t, frame) ==
    LET line_no == frame.line
        top == IF t.function_frames # <<>> THEN Last(t.function_frames)
               ELSE ModuleName
        scope == IF top = ModuleName THEN "global" ELSE top
    IN  [t EXCEPT
            !.execution_flow = Append(@, line_no),
            !.loop_counters =
                [l \in DOMAIN t.loop_counters \cup {line_no} |->
                    IF l = line_no THEN LoopCounter(t.loop_counters, l) + 1
                    ELSE t.loop_counters[l]],
            !.visited_lines = @ \cup {line_no},
            !.variable_snapshots =
                SnapshotLocals(@, frame.locals, line_no, scope)]

\* _handle_line
HandleLine(t, frame) ==
    LET line_no == frame.line
        flow == IF Len(t.execution_flow) < MAX_EXECUTION_FLOW
                THEN Append(t.execution_flow, line_no)
                ELSE t.execution_flow
        revisit == line_no \in t.visited_lines
        counters == IF revisit
                    THEN [l \in DOMAIN t.loop_counters \cup {line_no} |->
                            IF l = line_no
                            THEN LoopCounter(t.loop_counters, l) + 1
                            ELSE t.loop_counters[l]]
                    ELSE t.loop_counters
        visited == IF revisit THEN t.visited_lines
                   ELSE t.visited_lines \cup {line_no}
        top == IF t.function_frames # <<>> THEN Last(t.function_frames)
               ELSE ModuleName
        scope == IF top = ModuleName THEN "global" ELSE top
        snapshots == IF Len(t.variable_snapshots) < MAX_SNAPSHOTS
                     THEN SnapshotLocals(t.variable_snapshots, frame.locals,
                                         line_no, scope)
                     ELSE t.variable_snapshots
    IN  [t EXCEPT !.execution_flow = flow, !.loop_counters = counters,
                  !.visited_lines = visited,
                  !.variable_snapshots = snapshots]

\* The record _handle_return fills: the last one of this function name whose
\* return_value is None; 0 when there is none.
LastOpenCall(function_calls, func_name) ==
    LET open == {i \in 1..Len(function_calls) :
                    /\ function_calls[i].function_name = func_name
                    /\ function_calls[i].return_value = NoneV}
    IN  IF open = {} THEN 0
        ELSE CHOOSE i \in open : \A j \in open : j <= i

\* Mutant: _handle_return without "self.current_stack_depth -= 1".
HandleReturnKeepsDepth(t, frame, arg) ==
    [t EXCEPT !.function_frames = IF @ # <<>> THEN Front(@) ELSE @,
              !.function_call_stack = IF @ # <<>> THEN Front(@) ELSE @]

\* The error that leaves _handle_return, NoExc when it returns: the one
\* _safe_serialize(arg) raises while the record's return_value is filled.
HandleReturnError(t, frame, arg) ==
    IF /\ frame.fn # ModuleName
       /\ LastOpenCall(t.function_calls, frame.fn) # 0
       /\ IsRaised(SafeSerialize(arg, 3))
    THEN SafeSerialize(arg, 3).kind
    ELSE NoExc

\* _handle_return.  When _safe_serialize raises, the depth has been lowered
\* and neither the record nor the two stacks are touched.
HandleReturn(t, frame, arg) ==
    LET i == LastOpenCall(t.function_calls, frame.fn)
        calls == IF frame.fn # ModuleName /\ i # 0
                 THEN [t.function_calls EXCEPT
                         ![i].return_value = SafeSerialize(arg, 3)]
                 ELSE t.function_calls
    IN  IF HandleReturnError(t, frame, arg) # NoExc
        THEN [t EXCEPT !.current_stack_depth = @ - 1]
        ELSE [t EXCEPT
                !.current_stack_depth = @ - 1,
                !.function_calls = calls,
                !.function_frames = IF @ # <<>> THEN Front(@) ELSE @,
                !.function_call_stack = IF @ # <<>> THEN Front(@) ELSE @]

\* _handle_exception
HandleException(t, frame, arg) ==
    [t EXCEPT !.exception = FormatException(arg)]

\* Mutant: the ceiling test without the snapshot ceiling.
LimitsExceededIgnoresSnapshots(t) ==
    \/ Len(t.execution_flow) >= MAX_EXECUTION_FLOW
    \/ Len(t.function_calls) >= MAX_FUNCTION_CALLS

\* Mutant: the ceiling test without the flow ceiling.
LimitsExceededIgnoresFlow(t) ==
    \/ Len(t.variable_snapshots) >= MAX_SNAPSHOTS
    \/ Len(t.function_calls) >= MAX_FUNCTION_CALLS

\* The ceiling test of trace_calls.
LimitsExceeded(t) ==
    \/ Len(t.variable_snapshots) >= MAX_SNAPSHOTS
    \/ Len(t.execution_flow) >= MAX_EXECUTION_FLOW
    \/ Len(t.function_calls) >= MAX_FUNCTION_CALLS

\* The error that leaves the handler of this event, NoExc when there is none.
\* In the programs explored the only value whose serialization raises is a
\* return value, so the call, line and exception handlers raise nothing.
HandlerError(t, frame, event, arg) ==
    IF event = "return" THEN HandleReturnError(t, frame, arg) ELSE NoExc

\* Mutant: trace_calls without its try / except around the handlers.
TraceCallsErrorWithoutTry(t, frame, event, arg) ==
    IF t.stopped \/ LimitsExceeded(t) THEN NoExc
    ELSE HandlerError(t, frame, event, arg)

\* The error that leaves trace_calls and so reaches the traced program:
\* "except Exception: pass" keeps every Exception inside the hook.
TraceCallsError(t, frame, event, arg) ==
    IF t.stopped \/ LimitsExceeded(t) THEN NoExc
    ELSE LET error == HandlerError(t, frame, event, arg)
         IN  IF IsException(error) THEN NoExc ELSE error

\* trace_calls: the hook the runtime invokes on every event.  An error of a
\* handler leaves the trace as the handler had it when it raised.
TraceCalls(t, frame, event, arg) ==
    IF t.stopped THEN t
    ELSE IF LimitsExceeded(t) THEN [t EXCEPT !.stopped = TRUE]
    ELSE CASE event = "call" -> HandleCall(t, frame)
           [] event = "line" -> HandleLine(t, frame)
           [] event = "return" -> HandleReturn(t, frame, arg)
           [] event = "exception" -> HandleException(t, frame, arg)
           [] OTHER -> t

\* Mutant: finalize_loop_info building its records from a loop list without
\* parsing the source.
FinalizeLoopInfoWithoutParse(t, source_parses, loops) ==
    [t EXCEPT !.loop_executions = @ \o
        [i \in 1..Len(loops) |->
            [line_start |-> loops[i].line_start,
             iteration_count |->
                 LoopCounter(t.loop_counters, loops[i].line_start),
             loop_type |-> loops[i].loop_type]]]

\* Mutant: finalize_loop_info leaving out the loops without a counter.
FinalizeLoopInfoOnlyCounted(t, source_parses, loops) ==
    LET Counted(loop) == loop.line_start \in DOMAIN t.loop_counters
        counted == SelectSeq(loops, Counted)
    IN  IF source_parses
        THEN [t EXCEPT !.loop_executions = @ \o
                [i \in 1..Len(counted) |->
                    [line_start |-> counted[i].line_start,
                     iteration_count |->
                         LoopCounter(t.loop_counters, counted[i].line_start),
                     loop_type |-> counted[i].loop_type]]]
        ELSE t

\* finalize_loop_info: one LoopExecution per loop node of the parsed source,
\* nothing when the source cannot be parsed.
FinalizeLoopInfo(t, source_parses, loops) ==
    IF source_parses
    THEN [t EXCEPT !.loop_executions = @ \o
            [i \in 1..Len(loops) |->
                [line_start |-> loops[i].line_start,
                 iteration_count |->
                     LoopCounter(t.loop_counters, loops[i].line_start),
                 loop_type |-> loops[i].loop_type]]]
    ELSE t

\* ------------------------------------------------------- DynamicAnalyzer
\* exec_globals = {'__name__': ..., '__builtins__': ...}, then test_inputs.
BaseGlobals ==
    <<[name |-> "__name__", value |-> StrV(0)],
      [name |-> "__builtins__", value |-> ObjV(0)]>>
TestInputs == {<<>>, <<[name |-> "x", value |-> IntV(1)]>>}
\* The loop statements (ast.For / ast.While) a source may hold.
LoopLists ==
    {<<>>,
     <<[line_start |-> 1, loop_type |-> "for"]>>,
     <<[line_start |-> 1, loop_type |-> "while"],
       [line_start |-> 2, loop_type |-> "for"]>>}

\* Mutant: the finally block storing the whole captured output.
TruncateOutputKeepsAll(val) == val

\* The output truncation in execute_code's finally block.
TruncateOutput(val) ==
    IF Len(val) > MAX_OUTPUT_SIZE THEN SubSeq(val, 1, MAX_OUTPUT_SIZE)
    ELSE val

\* Mutant: analyze without its final-state loop.
FinalSnapshotsNone(snapshots, globals) == snapshots

\* The final-state loop of analyze over exec_globals.items().
RECURSIVE FinalSnapshots(_, _)
FinalSnapshots(snapshots, globals) ==
    IF globals = <<>> THEN snapshots
    ELSE LET var == Head(globals)
         IN  IF var.name \notin DunderNames /\ var.name # "__builtins__"
             THEN FinalSnapshots(
                    Append(snapshots,
                        [name |-> var.name,
                         value |-> SafeSerialize(var.value, 3),
                         value_type |-> TypeName(var.value),
                         line |-> -1, scope |-> "global"]),
                    Tail(globals))
             ELSE FinalSnapshots(snapshots, Tail(globals))

\* _serialize_value: primitives and strings as they are, lists, tuples and
\* dicts element by element, a set as the list of its elements, anything
\* else as its str().
RECURSIVE SerializeValue(_)
SerializeValue(value) ==
    IF value.k \in {"none", "bool", "int", "float", "str"} THEN value
    ELSE IF value.k \in {"list", "tuple"}
    THEN ListV([i \in 1..Len(value.items) |-> SerializeValue(value.items[i])])
    ELSE IF value.k = "dict"
    THEN DictV([i \in 1..Len(value.items) |->
                    [name |-> value.items[i].name,
                     value |-> SerializeValue(value.items[i].value)]])
    ELSE IF value.k = "set" THEN ListV(value.items)
    ELSE StrV(value.v)

\* Mutant: final_variables built from the first snapshot of each pair.
FinalVariablesFirst(snapshots) ==
    LET keys == {<<snapshots[i].scope, snapshots[i].name>> :
                    i \in 1..Len(snapshots)}
        first(key) == CHOOSE i \in 1..Len(snapshots) :
                        /\ <<snapshots[i].scope, snapshots[i].name>> = key
                        /\ \A j \in 1..(i - 1) :
                            <<snapshots[j].scope, snapshots[j].name>> # key
    IN  [key \in keys |->
            [value |-> SerializeValue(snapshots[first(key)].value),
             type |-> snapshots[first(key)].value_type]]

\* The final_variables of _compile_results: for each (scope, name) the last
\* snapshot recorded for it.
FinalVariables(snapshots) ==
    LET keys == {<<snapshots[i].scope, snapshots[i].name>> :
                    i \in 1..Len(snapshots)}
        last(key) == CHOOSE i \in 1..Len(snapshots) :
                        /\ <<snapshots[i].scope, snapshots[i].name>> = key
                        /\ \A j \in (i + 1)..Len(snapshots) :
                            <<snapshots[j].scope, snapshots[j].name>> # key
    IN  [key \in keys |->
            [value |-> SerializeValue(snapshots[last(key)].value),
             type |-> snapshots[last(key)].value_type]]

\* _compile_results
CompileResults(trace) ==
    [execution_successful |->
        trace.exception = NoException /\ ~trace.timed_out,
     exception |-> trace.exception,
     timed_out |-> trace.timed_out,
     max_stack_depth |-> trace.max_stack_depth,
     total_lines_executed |-> Len(trace.execution_flow),
     unique_lines_executed |->
        Cardinality({trace.execution_flow[i] :
                        i \in 1..Len(trace.execution_flow)}),
     execution_flow |-> Take(trace.execution_flow, FLOW_RESPONSE_LIMIT),
     execution_flow_truncated |->
        Len(trace.execution_flow) > FLOW_RESPONSE_LIMIT,
     stdout |-> trace.stdout_output,
     stderr |-> trace.stderr_output,
     function_calls |-> trace.function_calls,
     total_function_calls |-> trace.total_function_calls,
     unique_functions_called |-> trace.unique_functions_called,
     loop_executions |-> trace.loop_executions,
     variable_snapshots |->
        [i \in 1..MinOf(SNAPSHOT_RESPONSE_LIMIT, Len(trace.variable_snapshots))
            |-> [trace.variable_snapshots[i] EXCEPT
                    !.value = SerializeValue(@)]],
     variable_snapshots_truncated |->
        Len(trace.variable_snapshots) > SNAPSHOT_RESPONSE_LIMIT,
     final_variables |-> FinalVariables(trace.variable_snapshots),
     has_recursion |->
        \E i \in 1..Len(trace.function_calls) :
            trace.function_calls[i].is_recursive_call]

\* ------------------------------------------------------------------ state
InitRun ==
    /\ parses \in BOOLEAN
    /\ supPc = "start"
    /\ timed_out = FALSE
    /\ workerPc = "idle"
    /\ settrace = FALSE
    /\ progStack = <<>>
    /\ progExc = NoExc
    /\ test_inputs \in TestInputs
    /\ exec_globals = BaseGlobals \o test_inputs
    /\ stdout_capture = <<>>
    /\ stderr_capture = <<>>
    /\ result_container = [completed |-> FALSE, stdout |-> <<>>,
                           stderr |-> <<>>]
    /\ workerExc = NoExc
    /\ futureExc = NoExc
    /\ tracer = NewTracer
    /\ result = <<>>
    /\ deadline = [running |-> FALSE, stdout |-> <<>>]
    /\ invocations = <<>>

\* No value is being serialized on its own.
NoSerializing == [pc |-> "none"]

\* One run of analyze; sys.stdout is the process's own stream (0).
Init ==
    /\ InitRun
    /\ sys_stdout = 0
    /\ runs = <<>>
    /\ serializing = NoSerializing

\* ------------------------------------------------- the traced program
\* The first declared parameter of each function, and its def line.
Params(fn) == IF fn = "f" THEN <<"n">> ELSE <<"self">>
DefLine(fn) == IF fn = "f" THEN 1 ELSE 2
BodyLine(fn) == IF fn = ModuleName THEN 1 ELSE MaxLine
\* f_locals of the running frame: the module frame's are exec_globals.
CurLocals ==
    IF Len(progStack) = 1 THEN exec_globals ELSE Last(progStack).locals
\* The frame object the hook receives.
Frame(fn, line, f_locals) ==
    [fn |-> fn, line |-> line, locals |-> f_locals,
     params |-> IF fn = ModuleName THEN <<>> ELSE Params(fn)]
Running == workerPc = "running"

\* History of the invocation whose call event created a call record: its
\* function and depth, whether its return event was handled by the hook and
\* with which value, and how often the record's return_value was written.
NewInvocation(fn, depth) ==
    [fn |-> fn, depth |-> depth, returned |-> FALSE, value |-> NoneV,
     writes |-> 0]
\* A return event of this frame with this value reaches the hook in state t:
\* when the hook handles it to the end, the frame's own invocation has
\* returned value and the record _handle_return picks is written.
NoteReturn(history, t, frame, value) ==
    IF t.stopped \/ LimitsExceeded(t) THEN history
    ELSE IF HandleReturnError(t, frame, value) # NoExc THEN history
    ELSE LET written == LastOpenCall(t.function_calls, frame.fn)
             h1 == IF frame.rec # 0
                   THEN [history EXCEPT ![frame.rec].returned = TRUE,
                                        ![frame.rec].value = value]
                   ELSE history
         IN  IF written # 0
             THEN [h1 EXCEPT ![written].writes = @ + 1]
             ELSE h1
\* The running frame is executing a line: every statement of a frame follows
\* a line event of that frame.
InLine == Running /\ progExc = NoExc /\ Last(progStack).lined

\* A line event in the running frame; the frame then executes that line.
\* In the programs explored the module body is line 1 and every function
\* body is line MaxLine.
LineEvent(line) ==
    /\ Running /\ progExc = NoExc
    /\ line = BodyLine(Last(progStack).fn)
    /\ tracer' = TraceCalls(tracer,
                    Frame(Last(progStack).fn, line, CurLocals), "line", NoneV)
    /\ progStack' = [progStack EXCEPT ![Len(progStack)].lined = TRUE]
    /\ UNCHANGED <<inputs, concurrent, serializing, invocations,
                   supPc, timed_out, workerPc, settrace,
                   progExc, exec_globals, stdout_capture, stderr_capture,
                   result_container,
                   workerExc, futureExc, result, deadline>>

\* The program calls fn with one argument: a new frame, then its call event.
\* In the programs explored the argument passed is the nesting depth, and
\* __exit__ is called from the module body and calls nothing.
CallEvent(fn, arg) ==
    /\ InLine
    /\ Last(progStack).fn # "__exit__"
    /\ (fn = "__exit__" => Len(progStack) = 1)
    /\ Len(progStack) < MaxDepth + 1
    /\ LET f_locals == <<[name |-> Params(fn)[1], value |-> arg]>>
           recorded == Len(tracer'.function_calls) > Len(tracer.function_calls)
       IN  /\ tracer' = TraceCalls(tracer, Frame(fn, DefLine(fn), f_locals),
                                   "call", NoneV)
           /\ progStack' = Append(progStack,
                                [fn |-> fn, locals |-> f_locals,
                                 lined |-> FALSE,
                                 rec |-> IF recorded
                                         THEN Len(tracer'.function_calls)
                                         ELSE 0])
           /\ invocations' = IF recorded
                              THEN Append(invocations,
                                          NewInvocation(fn, Len(progStack')))
                              ELSE invocations
    /\ UNCHANGED <<inputs, concurrent, serializing,
                   supPc, timed_out, workerPc, settrace, progExc,
                   exec_globals, stdout_capture, stderr_capture, result_container, workerExc,
                   futureExc, result, deadline>>

\* What a function of the program returns: a value of Values, or a list of
\* a subclass whose __len__ raises.
ReturnValues == Values \cup {HostileV}

\* The running function returns value: its return event, then the frame
\* goes.  An error that leaves the hook is raised in the program.
ReturnEvent(value) ==
    /\ InLine
    /\ Len(progStack) > 1
    /\ tracer' = TraceCalls(tracer,
                    Frame(Last(progStack).fn, DefLine(Last(progStack).fn),
                          CurLocals), "return", value)
    /\ invocations' = NoteReturn(invocations, tracer, Last(progStack), value)
    /\ progStack' = Front(progStack)
    /\ progExc' = TraceCallsError(tracer,
                    Frame(Last(progStack).fn, DefLine(Last(progStack).fn),
                          CurLocals), "return", value)
    /\ UNCHANGED <<inputs, concurrent, serializing,
                   supPc, timed_out, workerPc, settrace,
                   exec_globals, stdout_capture, stderr_capture, result_container, workerExc,
                   futureExc, result, deadline>>

\* The module-level code binds a global name (no event of its own).  The
\* programs explored rebind the name supplied as input and bind no other
\* global; their function bodies bind nothing beyond their parameter.
Assign(name, value) ==
    /\ InLine
    /\ HasKey(test_inputs, name)
    /\ Len(progStack) = 1
    /\ exec_globals' = Bind(exec_globals, name, value)
    /\ UNCHANGED <<inputs, concurrent, serializing, invocations,
                   supPc, timed_out, workerPc, settrace, progStack,
                   progExc, stdout_capture, stderr_capture, result_container, workerExc,
                   futureExc, tracer, result, deadline>>

\* The module body writes one character to the redirected standard output;
\* the k-th character written is k.  The programs explored write to one of
\* the two streams only.
WriteStdout ==
    /\ InLine /\ Len(progStack) = 1
    /\ stderr_capture = <<>>
    /\ Len(stdout_capture) < MaxOut
    /\ stdout_capture' = Append(stdout_capture, Len(stdout_capture) + 1)
    /\ UNCHANGED <<inputs, concurrent, serializing, invocations,
                   supPc, timed_out, workerPc, settrace, progStack,
                   progExc, stderr_capture, exec_globals, result_container,
                   workerExc,
                   futureExc, tracer, result, deadline>>

\* The module body writes one character to the redirected standard error.
WriteStderr ==
    /\ InLine /\ Len(progStack) = 1
    /\ stdout_capture = <<>>
    /\ Len(stderr_capture) < MaxOut
    /\ stderr_capture' = Append(stderr_capture, Len(stderr_capture) + 1)
    /\ UNCHANGED <<inputs, concurrent, serializing, invocations,
                   supPc, timed_out, workerPc, settrace, progStack,
                   progExc, stdout_capture, exec_globals, result_container,
                   workerExc,
                   futureExc, tracer, result, deadline>>

\* The program raises an exception of this kind: the exception event of the
\* running frame.
Raise(kind) ==
    /\ InLine
    /\ progExc' = kind
    /\ tracer' = TraceCalls(tracer,
                    Frame(Last(progStack).fn, DefLine(Last(progStack).fn),
                          CurLocals), "exception", kind)
    /\ UNCHANGED <<inputs, concurrent, serializing, invocations,
                   supPc, timed_out, workerPc, settrace, progStack,
                   exec_globals, stdout_capture, stderr_capture, result_container, workerExc,
                   futureExc, result, deadline>>

\* The running frame catches the propagating exception (try / except).
Handle ==
    /\ Running /\ progExc # NoExc
    /\ progExc' = NoExc
    /\ UNCHANGED <<inputs, concurrent, serializing, invocations,
                   supPc, timed_out, workerPc, settrace, progStack,
                   exec_globals, stdout_capture, stderr_capture, result_container, workerExc,
                   futureExc, tracer, result, deadline>>

\* The exception leaves a function frame: its return event with None, then
\* the exception event of the caller's frame.
Unwind ==
    /\ Running /\ progExc # NoExc
    /\ Len(progStack) > 1
    /\ LET left == TraceCalls(tracer,
                      Frame(Last(progStack).fn, DefLine(Last(progStack).fn),
                            CurLocals), "return", NoneV)
           caller == Front(progStack)
           caller_locals == IF Len(caller) = 1 THEN exec_globals
                            ELSE Last(caller).locals
       IN  /\ progStack' = caller
           /\ tracer' = TraceCalls(left,
                           Frame(Last(caller).fn, DefLine(Last(caller).fn),
                                 caller_locals), "exception", progExc)
           /\ invocations' = NoteReturn(invocations, tracer, Last(progStack),
                                        NoneV)
    /\ UNCHANGED <<inputs, concurrent, serializing,
                   supPc, timed_out, workerPc, settrace, progExc,
                   exec_globals, stdout_capture, stderr_capture, result_container, workerExc,
                   futureExc, result, deadline>>

\* The exception leaves the module frame: exec() raises it in execute_code.
Escape ==
    /\ Running /\ progExc # NoExc
    /\ Len(progStack) = 1
    /\ tracer' = TraceCalls(tracer, Frame(ModuleName, 1, exec_globals),
                            "return", NoneV)
    /\ progStack' = <<>>
    /\ workerExc' = progExc
    /\ workerPc' = "except"
    /\ UNCHANGED <<inputs, concurrent, serializing, invocations,
                   supPc, timed_out, settrace, progExc, exec_globals,
                   stdout_capture, stderr_capture, result_container, futureExc, result,
                   deadline>>

\* The module body ends: its return event; exec() returns and execute_code
\* sets result_container['completed'].
Complete ==
    /\ InLine
    /\ Len(progStack) = 1
    /\ tracer' = TraceCalls(tracer, Frame(ModuleName, 1, exec_globals),
                            "return", NoneV)
    /\ progStack' = <<>>
    /\ result_container' = [result_container EXCEPT !.completed = TRUE]
    /\ workerPc' = "finally"
    /\ UNCHANGED <<inputs, concurrent, serializing, invocations,
                   supPc, timed_out, settrace, progExc, exec_globals,
                   stdout_capture, stderr_capture, workerExc, futureExc, result,
                   deadline>>

\* ------------------------------------------------ execute_code (worker)
\* sys.settrace(tracer.trace_calls)
InstallHook ==
    /\ workerPc = "settrace"
    /\ settrace' = TRUE
    /\ workerPc' = "exec"
    /\ UNCHANGED <<inputs, concurrent, serializing, invocations,
                   supPc, timed_out, progStack, progExc, exec_globals,
                   stdout_capture, stderr_capture, result_container, workerExc, futureExc,
                   tracer, result, deadline>>

\* exec(source_code, exec_globals) on a source that compiles: the module
\* frame starts and the hook gets its call event.
ExecStart ==
    /\ workerPc = "exec" /\ parses
    /\ progStack' = <<[fn |-> ModuleName, locals |-> <<>>, lined |-> FALSE,
                      rec |-> 0]>>
    /\ tracer' = TraceCalls(tracer, Frame(ModuleName, 1, exec_globals),
                            "call", NoneV)
    /\ workerPc' = "running"
    /\ UNCHANGED <<inputs, concurrent, serializing, invocations,
                   supPc, timed_out, settrace, progExc, exec_globals,
                   stdout_capture, stderr_capture, result_container, workerExc, futureExc,
                   result, deadline>>

\* exec(source_code, exec_globals) on a source that does not compile raises
\* SyntaxError inside the try block.
ExecSyntaxError ==
    /\ workerPc = "exec" /\ ~parses
    /\ workerExc' = "SyntaxError"
    /\ workerPc' = "except"
    /\ UNCHANGED <<inputs, concurrent, serializing, invocations,
                   supPc, timed_out, settrace, progStack, progExc,
                   exec_globals, stdout_capture, stderr_capture, result_container, futureExc,
                   tracer, result, deadline>>

\* Mutant: the except clause leaves the trace as the hook left it.
WorkerExceptRecordsNothing(t, kind) == t

\* What "except Exception as e" of execute_code leaves in the trace.
WorkerExcept(t, kind) ==
    IF IsException(kind) THEN [t EXCEPT !.exception = FormatException(kind)]
    ELSE t

\* The except clause of execute_code; an exception it does not match goes
\* on to the future.
ExceptClause ==
    /\ workerPc = "except"
    /\ tracer' = WorkerExcept(tracer, workerExc)
    /\ futureExc' = IF IsException(workerExc) THEN NoExc ELSE workerExc
    /\ workerPc' = "finally"
    /\ UNCHANGED <<inputs, concurrent, serializing, invocations,
                   supPc, timed_out, settrace, progStack, progExc,
                   exec_globals, stdout_capture, stderr_capture, result_container, workerExc,
                   result, deadline>>

\* Mutant: the finally block without sys.settrace(None).
RemoveHookLeavesIt(installed) == installed

\* sys.settrace(None) in the finally block of execute_code.
RemoveHook(installed) == FALSE

\* Mutant: the captured output is stored only for a completed run.
WorkerFinallyOnlyWhenCompleted(container, stdout_val, stderr_val) ==
    IF container.completed
    THEN [container EXCEPT !.stdout = TruncateOutput(stdout_val),
                           !.stderr = TruncateOutput(stderr_val)]
    ELSE container

\* What the finally block of execute_code stores in result_container.
WorkerFinally(container, stdout_val, stderr_val) ==
    [container EXCEPT !.stdout = TruncateOutput(stdout_val),
                      !.stderr = TruncateOutput(stderr_val)]

\* The finally clause of execute_code; the future is then done.
FinallyClause ==
    /\ workerPc = "finally"
    /\ settrace' = RemoveHook(settrace)
    /\ result_container' = WorkerFinally(result_container, stdout_capture,
                                         stderr_capture)
    /\ workerPc' = "done"
    /\ UNCHANGED <<inputs, concurrent, serializing, invocations,
                   supPc, timed_out, progStack, progExc, exec_globals,
                   stdout_capture, stderr_capture, workerExc, futureExc, tracer, result,
                   deadline>>

\* ------------------------------------------------- analyze (supervisor)
\* executor.submit(execute_code)
Submit ==
    /\ supPc = "start"
    /\ supPc' = "waiting"
    /\ workerPc' = "settrace"
    /\ UNCHANGED <<inputs, concurrent, serializing, invocations,
                   timed_out, settrace, progStack, progExc,
                   exec_globals, stdout_capture, stderr_capture, result_container, workerExc,
                   futureExc, tracer, result, deadline>>

\* What "except FutureTimeoutError" of analyze writes to the trace.
MarkTimedOut(t) ==
    [t EXCEPT !.timed_out = TRUE, !.exception = TimeoutMessage]

\* future.result(timeout) raises FutureTimeoutError: the future is not done
\* at the deadline.  Control then reaches the end of the with block.
Timeout ==
    /\ supPc = "waiting" /\ workerPc # "done"
    /\ timed_out' = TRUE
    /\ tracer' = MarkTimedOut(tracer)
    /\ deadline' = [running |-> Running,
                    stdout |-> IF Running THEN stdout_capture ELSE <<>>]
    /\ supPc' = "shutdown"
    /\ UNCHANGED <<inputs, concurrent, serializing, invocations,
                   workerPc, settrace, progStack, progExc,
                   exec_globals, stdout_capture, stderr_capture, result_container, workerExc,
                   futureExc, result>>

\* future.result(timeout) returns: execute_code ended without an exception.
FutureDone ==
    /\ supPc = "waiting" /\ workerPc = "done" /\ futureExc = NoExc
    /\ supPc' = "shutdown"
    /\ UNCHANGED <<inputs, concurrent, serializing, invocations,
                   timed_out, workerPc, settrace, progStack, progExc,
                   exec_globals, stdout_capture, stderr_capture, result_container, workerExc,
                   futureExc, tracer, result, deadline>>

\* future.result(timeout) re-raises what left execute_code: "except
\* Exception" records it, anything else leaves analyze.
FutureRaised ==
    /\ supPc = "waiting" /\ workerPc = "done" /\ futureExc # NoExc
    /\ IF IsException(futureExc)
       THEN /\ tracer' = [tracer EXCEPT
                            !.exception = FormatException(futureExc)]
            /\ supPc' = "shutdown"
       ELSE /\ supPc' = "raised"
            /\ UNCHANGED tracer
    /\ UNCHANGED <<inputs, concurrent, serializing, invocations,
                   timed_out, workerPc, settrace, progStack, progExc,
                   exec_globals, stdout_capture, stderr_capture, result_container, workerExc,
                   futureExc, result, deadline>>

\* The trace as analyze leaves it before _compile_results: captured output,
\* the final globals unless timed out, the loop records.
FinalTrace(t, container, local_timed_out, globals, source_parses, loops) ==
    LET t1 == [t EXCEPT !.stdout_output = container.stdout,
                        !.stderr_output = container.stderr]
        t2 == IF ~local_timed_out
              THEN [t1 EXCEPT !.variable_snapshots =
                        FinalSnapshots(@, globals)]
              ELSE t1
    IN  FinalizeLoopInfo(t2, source_parses, loops)

\* The with block ends (ThreadPoolExecutor.__exit__ is shutdown(wait=True),
\* which joins the worker), then analyze finalizes the trace and returns
\* the compiled result.
FinalizeWith(loops) ==
    /\ supPc = "shutdown" /\ workerPc = "done"
    /\ tracer' = FinalTrace(tracer, result_container, timed_out,
                            exec_globals, parses, loops)
    /\ result' = CompileResults(tracer')
    /\ supPc' = "returned"
    /\ UNCHANGED <<inputs, concurrent, serializing, invocations,
                   timed_out, workerPc, settrace, progStack, progExc,
                   exec_globals, stdout_capture, stderr_capture, result_container, workerExc,
                   futureExc, deadline>>

\* The source holds any of the loop lists.
Finalize == \E loops \in LoopLists : FinalizeWith(loops)

Program ==
    \/ \E line \in Lines : LineEvent(line)
    \/ \E fn \in FuncNames : CallEvent(fn, IntV(Len(progStack)))
    \/ \E value \in ReturnValues : ReturnEvent(value)
    \/ \E name \in AssignNames, value \in Values : Assign(name, value)
    \/ WriteStdout
    \/ WriteStderr
    \/ \E kind \in RaiseKinds : Raise(kind)
    \/ Handle
    \/ Unwind
    \/ Escape
    \/ Complete

Worker ==
    \/ InstallHook
    \/ ExecStart
    \/ ExecSyntaxError
    \/ Program
    \/ ExceptClause
    \/ FinallyClause

Supervisor ==
    \/ Submit
    \/ Timeout
    \/ FutureDone
    \/ FutureRaised
    \/ Finalize

Next == Worker \/ Supervisor

Spec == Init /\ [][Next]_vars

\* ------------------------------------ concurrent runs of execute_code
\* Several analyze calls run execute_code on their own workers in one
\* process.  Each has its own stdout_capture; sys.stdout, which
\* redirect_stdout swaps and print writes to, is the process's.
RunIds == 1..NumRuns
\* The variables of the single run above.
single == <<inputs, supPc, timed_out, workerPc, settrace, progStack, progExc,
            exec_globals, stdout_capture, stderr_capture, result_container, workerExc,
            futureExc, tracer, result, deadline, invocations>>

InitConcurrent ==
    /\ InitRun /\ parses /\ test_inputs = <<>>
    /\ sys_stdout = 0
    /\ runs = [r \in RunIds |->
                [pc |-> "start", old_target |-> 0, stdout_capture |-> <<>>,
                 written |-> <<>>, stdout |-> <<>>]]
    /\ serializing = NoSerializing

\* redirect_stdout(stdout_capture).__enter__: remember the current
\* sys.stdout, then point sys.stdout at this run's buffer.
RunEnter(r) ==
    /\ runs[r].pc = "start"
    /\ runs' = [runs EXCEPT ![r].pc = "exec", ![r].old_target = sys_stdout]
    /\ sys_stdout' = r
    /\ UNCHANGED <<single, serializing>>

\* The program of run r prints its next character: it goes to whatever
\* sys.stdout is now (the process's own stream keeps nothing here).
RunPrint(r) ==
    /\ runs[r].pc = "exec"
    /\ Len(runs[r].written) < MaxOut
    /\ LET char == <<r, Len(runs[r].written) + 1>>
           noted == [runs EXCEPT ![r].written = Append(@, char)]
       IN  runs' = IF sys_stdout \in RunIds
                   THEN [noted EXCEPT
                            ![sys_stdout].stdout_capture = Append(@, char)]
                   ELSE noted
    /\ UNCHANGED <<single, sys_stdout, serializing>>

\* redirect_stdout.__exit__: sys.stdout becomes the remembered stream.
RunExit(r) ==
    /\ runs[r].pc = "exec"
    /\ runs' = [runs EXCEPT ![r].pc = "finally"]
    /\ sys_stdout' = runs[r].old_target
    /\ UNCHANGED <<single, serializing>>

\* The finally block of run r: its buffer, truncated, is the run's stdout.
RunFinally(r) ==
    /\ runs[r].pc = "finally"
    /\ runs' = [runs EXCEPT
                    ![r].pc = "done",
                    ![r].stdout = TruncateOutput(runs[r].stdout_capture)]
    /\ UNCHANGED <<single, sys_stdout, serializing>>

NextConcurrent ==
    \E r \in RunIds :
        \/ RunEnter(r)
        \/ RunPrint(r)
        \/ RunExit(r)
        \/ RunFinally(r)

SpecConcurrent == InitConcurrent /\ [][NextConcurrent]_vars

\* ------------------------------------- _safe_serialize on collections
\* tracer._safe_serialize(value) on a value of any kind, and then on what
\* it returned.
Seqs(S, n) == UNION {[1..m -> S] : m \in 0..n}
Distinct(items) == \A i, j \in 1..Len(items) : i # j => items[i] # items[j]
DictKeys == {"a", "b", "..."}
\* Lists, tuples and sets of up to MaxItems integers, dicts of up to
\* MaxItems - 1 items, and the values that hold an element of another kind.
Flat ==
    {ListV(items) : items \in Seqs({IntV(1), IntV(2)}, MaxItems)}
    \cup {TupleV(items) : items \in Seqs({IntV(1)}, MaxItems)}
    \cup {SetV(items) :
            items \in {s \in Seqs({IntV(1), IntV(2), IntV(3)}, MaxItems - 1) :
                            Distinct(s)}}
    \cup {DictV([i \in 1..Len(keys) |-> [name |-> keys[i], value |-> IntV(i)]]) :
            keys \in {s \in Seqs(DictKeys, MaxItems - 1) : Distinct(s)}}
Scalars == {NoneV, IntV(1), StrV(1), ObjV(1), BrokenV, HostileV}
Nested(inner) ==
    {ListV(<<v>>) : v \in inner}
    \cup {DictV(<<[name |-> "a", value |-> v]>>) : v \in inner}
\* Tuples nested in tuples: ((((1,),),),).
RECURSIVE Tuples(_)
Tuples(n) == IF n = 0 THEN IntV(1) ELSE TupleV(<<Tuples(n - 1)>>)
\* Sets of one hashable element that is not a number.
SetsOf == {SetV(<<v>>) : v \in {Tuples(1), Tuples(4), ObjV(1)}}
SerializeInputs ==
    Flat \cup Scalars \cup Nested(Scalars) \cup SetsOf
    \cup Nested(Nested(Nested({ListV(<<>>), IntV(1)})))

InitSerialize ==
    /\ InitRun /\ parses /\ test_inputs = <<>>
    /\ sys_stdout = 0
    /\ runs = <<>>
    /\ \E value \in SerializeInputs :
        serializing = [pc |-> "value", value |-> value]

\* _safe_serialize(value): it returns the serialization or raises.
SerializeValueOnce ==
    /\ serializing.pc = "value"
    /\ serializing' = [pc |-> "serialized", value |-> serializing.value,
                       serialized |-> SafeSerialize(serializing.value, 3)]
    /\ UNCHANGED <<single, concurrent>>

\* _safe_serialize on the serialization it returned.
SerializeAgain ==
    /\ serializing.pc = "serialized"
    /\ ~IsRaised(serializing.serialized)
    /\ serializing' = [serializing EXCEPT !.pc = "reserialized"]
                        @@ [reserialized |->
                                SafeSerialize(serializing.serialized, 3)]
    /\ UNCHANGED <<single, concurrent>>

NextSerialize == SerializeValueOnce \/ SerializeAgain

SpecSerialize == InitSerialize /\ [][NextSerialize]_vars

\* ------------------------------------------------------------------ claims
Returned == supPc = "returned"
AnalyzeEnded == supPc \in {"returned", "raised"}
IsPrefix(s, t) == Len(s) <= Len(t) /\ SubSeq(t, 1, Len(s)) = s

\* C1: when the program is still running at the deadline, analyze marks the
\* run timed out and returns its result without waiting for the worker to
\* finish: while the program is still running after the deadline, the run
\* is marked timed out and analyze has a step it can take.
C1_ReturnsWithoutWaiting ==
    timed_out /\ Running => tracer.timed_out /\ ENABLED Supervisor

\* C2 as stated: for a program still running at the deadline, the result has
\* timed_out true, execution_successful false, and its stdout holds every
\* character the program wrote before the deadline.
C2_StdoutHoldsAllBeforeDeadline ==
    Returned /\ timed_out /\ deadline.running =>
        /\ result.timed_out
        /\ ~result.execution_successful
        /\ IsPrefix(deadline.stdout, result.stdout)

\* C2 as amended: for a program still running at the deadline, the result
\* analyze returns has timed_out true, execution_successful false, and its
\* stdout is the first MAX_OUTPUT_SIZE characters of what the program wrote,
\* so it holds what was written before the deadline up to that ceiling.
C2_TimedOutResult ==
    Returned /\ timed_out /\ deadline.running =>
        /\ result.timed_out
        /\ ~result.execution_successful
        /\ result.stdout = Take(stdout_capture, MAX_OUTPUT_SIZE)
        /\ IsPrefix(Take(deadline.stdout, MAX_OUTPUT_SIZE), result.stdout)

\* A timed-out run that returned a result and had written output before the
\* deadline.
C2_Witness ==
    /\ Returned /\ timed_out /\ deadline.running
    /\ deadline.stdout # <<>> /\ result.stdout # <<>>

\* C3: a valid program that runs to completion within the timeout with no
\* exception escaping it (also one that raised and handled an exception)
\* gets execution_successful true and exception null.
C3_CompletedRunSucceeds ==
    Returned /\ ~timed_out /\ result_container.completed =>
        result.execution_successful /\ result.exception = NoException

C5_AnalyzeNeverRaises == parses => supPc # "raised"

\* C6: for a source that does not parse, the hook is never installed.
C6_NoHookOnParseFailure == ~parses => ~settrace

\* C7: a parse failure reaches the caller as a hard error with no result,
\* and nothing else does: analyze returns a result exactly for the sources
\* that parse and raises exactly for those that do not.
C7_OnlyParseFailureIsHardError ==
    /\ Returned => parses
    /\ supPc = "raised" => ~parses

\* C8: at every point of a run and in the finalized trace, snapshots, flow
\* positions and call records each stay within their ceiling.
C8_CollectionsWithinCeilings ==
    /\ Len(tracer.variable_snapshots) <= MAX_SNAPSHOTS
    /\ Len(tracer.execution_flow) <= MAX_EXECUTION_FLOW
    /\ Len(tracer.function_calls) <= MAX_FUNCTION_CALLS

\* Some recording ceiling has been reached.
CeilingReached(t) ==
    \/ Len(t.variable_snapshots) >= MAX_SNAPSHOTS
    \/ Len(t.execution_flow) >= MAX_EXECUTION_FLOW
    \/ Len(t.function_calls) >= MAX_FUNCTION_CALLS
\* What the hook records.
HookRecorded(t) ==
    <<t.variable_snapshots, t.execution_flow, t.function_calls,
      t.current_stack_depth, t.max_stack_depth, t.exception,
      t.total_function_calls, t.unique_functions_called, t.loop_counters,
      t.visited_lines, t.function_frames, t.function_call_stack>>

\* C9: once a ceiling has been reached every later call, line, return and
\* exception event leaves what the hook records unchanged, the stopped
\* state is permanent, and the program can still take its next step.
C9_StoppedHookRecordsNothing ==
    /\ [][CeilingReached(tracer) /\ Program
            => HookRecorded(tracer') = HookRecorded(tracer)]_vars
    /\ [][tracer.stopped => tracer'.stopped]_vars
    /\ [](Running /\ CeilingReached(tracer) => ENABLED Program)

\* The hook is stopped and the program has since called further functions:
\* its stack is deeper than the hook's frozen one.
C9_Witness ==
    /\ tracer.stopped /\ Running
    /\ Len(progStack) > Len(tracer.function_frames)

\* C10 as stated: a call event met while the call-record ceiling has not
\* been reached is recorded, whatever the other ceilings.
C10_OtherKindsKeepRecording ==
    [][(\E fn \in FuncNames : CallEvent(fn, IntV(Len(progStack))))
        /\ Len(tracer.function_calls) < MAX_FUNCTION_CALLS
        => Len(tracer'.function_calls) = Len(tracer.function_calls) + 1]_vars

\* C10 as amended: reaching the ceiling of one kind stops the recording of
\* every kind: no call record is added once the flow or snapshot ceiling is
\* reached, no flow position once the call or snapshot ceiling is reached,
\* no snapshot once the call or flow ceiling is reached.
C10_AnyCeilingStopsEveryKind ==
    /\ [][(\/ Len(tracer.execution_flow) >= MAX_EXECUTION_FLOW
            \/ Len(tracer.variable_snapshots) >= MAX_SNAPSHOTS) /\ Program
            => tracer'.function_calls = tracer.function_calls]_vars
    /\ [][(\/ Len(tracer.function_calls) >= MAX_FUNCTION_CALLS
            \/ Len(tracer.variable_snapshots) >= MAX_SNAPSHOTS) /\ Program
            => tracer'.execution_flow = tracer.execution_flow]_vars
    /\ [][(\/ Len(tracer.function_calls) >= MAX_FUNCTION_CALLS
            \/ Len(tracer.execution_flow) >= MAX_EXECUTION_FLOW) /\ Program
            => tracer'.variable_snapshots = tracer.variable_snapshots]_vars

\* The flow ceiling is reached, the call ceiling is not, and the program
\* has made a call that left no record.
C10_Witness ==
    /\ Running
    /\ Len(tracer.execution_flow) = MAX_EXECUTION_FLOW
    /\ Len(tracer.function_calls) < MAX_FUNCTION_CALLS
    /\ Len(tracer.variable_snapshots) < MAX_SNAPSHOTS
    /\ Len(progStack) - 1 > Len(tracer.function_calls)

\* A call event reaches the hook: the module's or a function's.
AnyCallEvent ==
    \/ ExecStart
    \/ \E fn \in FuncNames : CallEvent(fn, IntV(Len(progStack)))
\* A return event reaches the hook: a function returns or is left by an
\* exception, or the module body ends.
AnyReturnEvent ==
    \/ \E value \in ReturnValues : ReturnEvent(value)
    \/ Unwind
    \/ Escape
    \/ Complete

\* C11: every call event the hook handles raises the current call-stack
\* depth by exactly one, every return event it handles lowers it by exactly
\* one, and the depth is never negative.
C11_DepthFollowsCallsAndReturns ==
    /\ [][AnyCallEvent /\ ~CeilingReached(tracer)
            => tracer'.current_stack_depth
                 = tracer.current_stack_depth + 1]_vars
    /\ [][AnyReturnEvent /\ ~CeilingReached(tracer)
            => tracer'.current_stack_depth
                 = tracer.current_stack_depth - 1]_vars
    /\ [](tracer.current_stack_depth >= 0)

\* A function was called and has returned with both events handled: the
\* depth is back at the module's.
C11_Witness ==
    /\ Running /\ ~tracer.stopped /\ Len(progStack) = 1
    /\ invocations # <<>> /\ invocations[1].returned
    /\ tracer.current_stack_depth = 1
    /\ tracer.max_stack_depth = 2

\* C12: the return_value of each call record is written at most once.
C12_ReturnValueWrittenOnce ==
    \A i \in 1..Len(invocations) : invocations[i].writes <= 1

\* C13: the record created by an invocation's call event ends the run with
\* the serialized value that same invocation returned, for every invocation
\* whose call and return events were both handled.
C13_ReturnValueOfSameInvocation ==
    Returned =>
        \A i \in 1..Len(invocations) :
            invocations[i].returned =>
                result.function_calls[i].return_value
                    = SafeSerialize(invocations[i].value, 3)

\* The calls the program made are one chain of k nested calls of f, each
\* from the one before (a single-argument function recursing to depth k).
RecursionToDepth(k) ==
    /\ Len(invocations) = k
    /\ \A i \in 1..k :
        invocations[i].fn = "f" /\ invocations[i].depth = i + 1
\* The indices of the call records of f in the result.
RecordsOfF == {i \in 1..Len(result.function_calls) :
                result.function_calls[i].function_name = "f"}

\* C14: for a function that recurses to depth k, run without the hook
\* stopping at a ceiling, the result has max_stack_depth >= k and exactly k
\* call records of that function: the first is not flagged recursive and
\* the other k - 1 are.
C14_RecursionRecords ==
    \A k \in 1..MaxDepth :
        Returned /\ ~tracer.stopped /\ RecursionToDepth(k) =>
            /\ result.max_stack_depth >= k
            /\ Cardinality(RecordsOfF) = k
            /\ Cardinality({i \in RecordsOfF :
                    ~result.function_calls[i].is_recursive_call}) = 1
            /\ ~result.function_calls[1].is_recursive_call
            /\ Cardinality({i \in RecordsOfF :
                    result.function_calls[i].is_recursive_call}) = k - 1

\* A returned run of f recursing to depth MaxDepth within the ceilings.
C14_Witness ==
    /\ Returned /\ ~tracer.stopped /\ RecursionToDepth(MaxDepth)
    /\ result.has_recursion

\* C15: the counter that becomes a loop's iteration_count equals the number
\* of times the loop body ran.  A frame's first line event on the loop's
\* header line enters the loop, and each further line event of that frame on
\* it completes one iteration: while no ceiling has been reached, the
\* counter of the line rises by one exactly on the latter.
C15_IterationCountIsBodyExecutions ==
    [][\A line \in Lines :
        LineEvent(line) /\ ~CeilingReached(tracer) =>
            LoopCounter(tracer'.loop_counters, line)
                = LoopCounter(tracer.loop_counters, line)
                    + (IF Last(progStack).lined THEN 1 ELSE 0)]_vars

\* The caller supplied the input x; its current binding; its final_variables
\* key.
InputGiven == test_inputs # <<>>
GlobalX == exec_globals[Lookup(exec_globals, "x")].value
KeyX == <<"global", "x">>
\* The final value the result records for global.x is the value x holds.
FinalValueIsCurrent ==
    /\ KeyX \in DOMAIN result.final_variables
    /\ result.final_variables[KeyX].value = GlobalX

C17_HookRemovedOnReturn ==
    /\ [](AnalyzeEnded => ~settrace /\ workerPc = "done")
    /\ [][AnalyzeEnded => tracer' = tracer]_vars

\* analyze has returned from a run that timed out while the program was
\* running with the hook installed and recording; the hook is removed.
C17_Witness ==
    /\ Returned /\ timed_out /\ deadline.running /\ ~settrace
    /\ tracer.execution_flow # <<>>

\* C18: under every interleaving of two concurrent runs, each run's captured
\* stdout is exactly the output its own program wrote (up to the output
\* ceiling).
C18_RunsCaptureOwnOutput ==
    \A r \in RunIds :
        runs[r].pc = "done" =>
            runs[r].stdout = TruncateOutput(runs[r].written)

\* C19: in every result stdout and stderr are each at most MAX_OUTPUT_SIZE
\* characters long and a prefix of what the program wrote to that stream,
\* holding all of it up to the ceiling; a run that wrote more still gets its
\* result.
C19_OutputWithinCeiling ==
    Returned =>
        /\ Len(result.stdout) = MinOf(Len(stdout_capture), MAX_OUTPUT_SIZE)
        /\ Len(result.stdout) <= MAX_OUTPUT_SIZE
        /\ IsPrefix(result.stdout, stdout_capture)
        /\ Len(result.stderr) = MinOf(Len(stderr_capture), MAX_OUTPUT_SIZE)
        /\ Len(result.stderr) <= MAX_OUTPUT_SIZE
        /\ IsPrefix(result.stderr, stderr_capture)

\* A successful run wrote more than the ceiling to standard output and its
\* result holds the first MAX_OUTPUT_SIZE characters.
C19_Witness ==
    /\ Returned /\ result.execution_successful
    /\ Len(stdout_capture) > MAX_OUTPUT_SIZE
    /\ result.stdout = SubSeq(stdout_capture, 1, MAX_OUTPUT_SIZE)

\* C20: the result of a run whose output was cut carries, for stdout and
\* for stderr, a boolean truncation flag (named as the result's other
\* truncation flags are) that is true exactly for the stream that exceeded
\* the output ceiling.
C20_OutputTruncationFlags ==
    Returned /\ (\/ Len(stdout_capture) > MAX_OUTPUT_SIZE
                 \/ Len(stderr_capture) > MAX_OUTPUT_SIZE) =>
        /\ {"stdout_truncated", "stderr_truncated"} \subseteq DOMAIN result
        /\ result.stdout_truncated = (Len(stdout_capture) > MAX_OUTPUT_SIZE)
        /\ result.stderr_truncated = (Len(stderr_capture) > MAX_OUTPUT_SIZE)

\* The value serialized is a list, tuple, dict or set with more elements
\* than the item cap.
OverCap(value) ==
    /\ value.k \in {"list", "tuple", "dict", "set"}
    /\ Len(value.items) > ITEM_CAP

\* C21: for a collection with more elements than the item cap, serializing
\* its serialization gives the same representation back.
C21_SerializeIdempotentOnTruncated ==
    serializing.pc = "reserialized" /\ OverCap(serializing.value) =>
        serializing.reserialized = serializing.serialized

\* C22: the serialization of a list, tuple or dict with more elements than
\* the item cap holds the first ITEM_CAP elements, each serialized, and after
\* them exactly one marker that states how many elements were left out.
C22_FirstItemsThenOneMarker ==
    /\ serializing.pc \in {"serialized", "reserialized"}
    /\ OverCap(serializing.value)
    /\ serializing.value.k # "set"
    => LET value == serializing.value
           out == serializing.serialized
           omitted == Len(value.items) - ITEM_CAP
       IN  /\ ~IsRaised(out)
           /\ Len(out.items) = ITEM_CAP + 1
           /\ IF value.k = "dict"
              THEN /\ out.k = "dict"
                   /\ \A i \in 1..ITEM_CAP :
                        out.items[i] =
                            [name |-> value.items[i].name,
                             value |-> SafeSerialize(value.items[i].value, 2)]
                   /\ out.items[ITEM_CAP + 1] =
                        [name |-> "...", value |-> DictMoreItems(omitted)]
              ELSE /\ out.k = "list"
                   /\ \A i \in 1..ITEM_CAP :
                        out.items[i] = SafeSerialize(value.items[i], 2)
                   /\ out.items[ITEM_CAP + 1] = MoreItems(omitted)

\* C23: _safe_serialize returns a value for a value of any kind; it never
\* raises.
C23_SerializeNeverRaises ==
    serializing.pc \in {"serialized", "reserialized"} =>
        ~IsRaised(serializing.serialized)

\* The function names of the frames that are active in the program (called
\* and not yet returned).
ActiveNames == {progStack[i].fn : i \in 1..Len(progStack)}

\* C24: every call event of a function that the hook handles appends one
\* record, and its is_recursive_call is true exactly when the function's name
\* is among the functions active before the call.
C24_RecursiveFlagIsNameOnStack ==
    [][\A fn \in FuncNames :
        CallEvent(fn, IntV(Len(progStack))) /\ ~CeilingReached(tracer) =>
            /\ Len(tracer'.function_calls) = Len(tracer.function_calls) + 1
            /\ Last(tracer'.function_calls).function_name = fn
            /\ Last(tracer'.function_calls).is_recursive_call
                    = (fn \in ActiveNames)]_vars

\* The snapshots of the trace that carry the sentinel line -1.
Sentinels == {i \in 1..Len(tracer.variable_snapshots) :
                tracer.variable_snapshots[i].line = -1}
\* The names in the global namespace that do not begin with "__".
UserGlobals == {exec_globals[i].name : i \in 1..Len(exec_globals)}
                    \ DunderNames

\* C25: when analyze ends a run that did not time out, every name of the
\* global namespace that is not internal has exactly one snapshot with line
\* -1, of scope 'global', and these snapshots follow all others; no snapshot
\* recorded during the run has line -1; after a timeout no snapshot has
\* line -1.
C25_SentinelSnapshots ==
    LET snaps == tracer.variable_snapshots
    IN  /\ ~AnalyzeEnded => Sentinels = {}
        /\ AnalyzeEnded /\ timed_out => Sentinels = {}
        /\ AnalyzeEnded /\ ~timed_out =>
            /\ \A name \in UserGlobals :
                    Cardinality({i \in Sentinels : snaps[i].name = name}) = 1
            /\ \A i \in Sentinels :
                    /\ snaps[i].scope = "global"
                    /\ snaps[i].name \in UserGlobals
                    /\ \A j \in 1..Len(snaps) : j \notin Sentinels => j < i

\* The (scope, name) pair of a snapshot.
PairOf(snapshot) == <<snapshot.scope, snapshot.name>>

\* C26: the final_variables of a result have exactly one entry per (scope,
\* name) pair with a recorded snapshot, holding the value and type of the
\* last snapshot recorded for the pair; when the run did not time out, the
\* entry of every global name is the name's serialized value at the end of
\* the run, whether or not the hook had stopped at a ceiling.
C26_FinalVariablesAreLastSnapshots ==
    Returned =>
        LET snaps == tracer.variable_snapshots
            final == result.final_variables
        IN  /\ DOMAIN final = {PairOf(snaps[i]) : i \in 1..Len(snaps)}
            /\ \A i \in 1..Len(snaps) :
                    (\A j \in (i + 1)..Len(snaps) :
                        PairOf(snaps[j]) # PairOf(snaps[i]))
                    => /\ final[PairOf(snaps[i])].value
                            = SerializeValue(snaps[i].value)
                       /\ final[PairOf(snaps[i])].type = snaps[i].value_type
            /\ ~timed_out =>
                    \A name \in UserGlobals :
                        /\ <<"global", name>> \in DOMAIN final
                        /\ final[<<"global", name>>].value
                            = SerializeValue(SafeSerialize(
                                exec_globals[Lookup(exec_globals, name)].value,
                                3))

\* The hook stopped at the snapshot ceiling, the program then rebound its
\* global, and the result's final value is the rebound one.
C26_Witness ==
    /\ Returned /\ ~timed_out /\ tracer.stopped /\ InputGiven
    /\ Len(tracer.variable_snapshots) > MAX_SNAPSHOTS
    /\ tracer.variable_snapshots[MAX_SNAPSHOTS].value # GlobalX
    /\ result.final_variables[KeyX].value = GlobalX

\* C27: for a source that parses, the result holds exactly one loop record
\* per loop statement of the source, in order, with the loop's line and kind
\* and as iteration_count the revisit counter of that line: 0 when the line
\* has no counter, never a negative number.
C27_OneRecordPerLoop ==
    [][\A loops \in LoopLists :
        FinalizeWith(loops) /\ parses =>
            /\ Len(result'.loop_executions) = Len(loops)
            /\ \A i \in 1..Len(loops) :
                LET record == result'.loop_executions[i]
                    line == loops[i].line_start
                IN  /\ record.line_start = line
                    /\ record.loop_type = loops[i].loop_type
                    /\ record.iteration_count >= 0
                    /\ record.iteration_count
                        = IF line \in DOMAIN tracer.loop_counters
                          THEN tracer.loop_counters[line]
                          ELSE 0]_vars

\* A result with two loop records: the loop at line 1 was revisited, the one
\* at line 2 was never reached and has count 0.
C27_Witness ==
    /\ Returned /\ parses
    /\ Len(result.loop_executions) = 2
    /\ result.loop_executions[1].iteration_count > 0
    /\ 2 \notin tracer.visited_lines
    /\ result.loop_executions[2].iteration_count = 0

\* The number of line events at this line that the hook has handled.
HandledLineEvents(line) ==
    Cardinality({i \in 1..Len(tracer.execution_flow) :
                    tracer.execution_flow[i] = line})

\* C28: at every moment of a run, a line is in the visited set exactly when
\* the hook has handled a line event at it, and its revisit counter is the
\* number of handled line events at that line number minus one, whatever
\* frame or invocation they came from; a line visited once has no counter.
C28_RevisitCounterIsVisitsMinusOne ==
    \A line \in Lines :
        /\ line \in tracer.visited_lines <=> HandledLineEvents(line) >= 1
        /\ line \in DOMAIN tracer.loop_counters
                <=> HandledLineEvents(line) >= 2
        /\ line \in tracer.visited_lines =>
                LoopCounter(tracer.loop_counters, line)
                    = HandledLineEvents(line) - 1

\* Two invocations of f each executed the body line: it has been revisited
\* once; the module's line was visited once and has no counter.
C28_Witness ==
    /\ Len(invocations) = 2 /\ ~tracer.stopped
    /\ invocations[1].returned
    /\ Running /\ Len(progStack) = 2 /\ Last(progStack).lined
    /\ HandledLineEvents(MaxLine) = 2
    /\ tracer.loop_counters[MaxLine] = 1
    /\ HandledLineEvents(1) = 1
    /\ 1 \notin DOMAIN tracer.loop_counters

\* C29: for a source whose structural parse fails, analyze does not raise,
\* and the result it returns has an empty loop_executions list next to the
\* rest of the trace: the exception, the captured output fields and the
\* final values of the globals.
C29_ParseFailureGivesNoLoops ==
    ~parses =>
        /\ supPc # "raised"
        /\ Returned =>
            /\ result.loop_executions = <<>>
            /\ result.exception
                    \in {FormatException("SyntaxError"), TimeoutMessage}
            /\ ~result.execution_successful
            /\ result.stdout = <<>> /\ result.stderr = <<>>
            /\ ~timed_out =>
                    \A name \in UserGlobals :
                        <<"global", name>> \in DOMAIN result.final_variables

\* analyze returned from a source that does not parse, with the syntax error
\* and the supplied input in the result and no loop record.
C29_Witness ==
    /\ Returned /\ ~parses /\ ~timed_out /\ InputGiven
    /\ result.exception = FormatException("SyntaxError")
    /\ result.final_variables[KeyX].value = test_inputs[1].value
    /\ result.loop_executions = <<>>

\* C30: while the worker is executing the target program, no step of
\* analyze (the supervisor) writes to the run's trace: the worker is the
\* only writer.
C30_SingleWriterOfTrace ==
    [][Supervisor /\ Running => tracer' = tracer]_vars

\* The frame object of the running function at its return event.
ReturningFrame ==
    Frame(Last(progStack).fn, DefLine(Last(progStack).fn), CurLocals)
\* Some handler has raised in this run: _handle_return left a name on the
\* stacks that it had already taken off the depth.
HandlerHasRaised ==
    Len(tracer.function_frames) > tracer.current_stack_depth

RECURSIVE NestingWithin(_, _)
NestingWithin(out, depth) ==
    IF out.k \in {"list", "tuple", "set", "L"}
    THEN /\ depth > 0
         /\ \A i \in 1..Len(out.items) :
                NestingWithin(out.items[i], depth - 1)
    ELSE IF out.k = "dict"
    THEN /\ depth > 0
         /\ \A i \in 1..Len(out.items) :
                NestingWithin(out.items[i].value, depth - 1)
    ELSE TRUE

\* C32: the serialization of a value of any kind (list, tuple, dict or set
\* at its top) holds collections nested at most three deep; whatever lay
\* deeper has been replaced and is not in the result as it was.
C32_SerializedDepthBounded ==
    serializing.pc \in {"serialized", "reserialized"}
    /\ ~IsRaised(serializing.serialized)
    => NestingWithin(serializing.serialized, 3)

IsPrimitive(value) == value.k \in {"none", "bool", "int", "float", "str"}
\* Every primitive of value, in a collection that out still holds as a
\* collection and among the elements the item cap keeps, is in out at the
\* same place and unchanged.
RECURSIVE PrimitivesKept(_, _)
PrimitivesKept(value, out) ==
    IF IsPrimitive(value) THEN out = value
    ELSE IF value.k \in {"list", "tuple", "set"} /\ out.k = "list"
    THEN \A i \in 1..MinOf(ITEM_CAP, Len(value.items)) :
            PrimitivesKept(value.items[i], out.items[i])
    ELSE IF value.k = "dict" /\ out.k = "dict"
    THEN \A i \in 1..MinOf(ITEM_CAP, Len(value.items)) :
            PrimitivesKept(value.items[i].value, out.items[i].value)
    ELSE TRUE

\* C33: a None, a number or a short string is in the serialization as it
\* was in the value, at the top and inside the collections the
\* serialization descends into.
C33_PrimitivesUnchanged ==
    serializing.pc \in {"serialized", "reserialized"}
    /\ ~IsRaised(serializing.serialized)
    => PrimitivesKept(serializing.value, serializing.serialized)

\* The scope of the code that is executing: the innermost active function,
\* 'global' in the module body.
InnermostScope ==
    IF Len(progStack) = 1 THEN "global" ELSE Last(progStack).fn

\* C34: every snapshot a line event appends carries the name of the
\* innermost function active at that event as its scope, 'global' in the
\* module body; its name does not begin with '__' and its scope is none of
\* the lifecycle methods.
C34_SnapshotScopeIsInnermost ==
    [][\A line \in Lines :
        LineEvent(line) =>
            \A i \in (Len(tracer.variable_snapshots) + 1)
                        ..Len(tracer'.variable_snapshots) :
                LET snapshot == tracer'.variable_snapshots[i]
                IN  /\ snapshot.scope = InnermostScope
                    /\ snapshot.name \notin DunderNames
                    /\ snapshot.scope \notin LifecycleScopes]_vars

\* C35: a result whose timed_out is true carries the supervisor's timeout
\* message as its exception, whatever the worker did in the meantime.
C35_TimedOutCarriesTimeoutMessage ==
    Returned /\ result.timed_out => result.exception = TimeoutMessage

\* C36: when every concurrent run has left execute_code, sys.stdout is the
\* stream it was before the first of them started.
C36_StreamsRestoredAfterRuns ==
    (\A r \in RunIds : runs[r].pc = "done") => sys_stdout = 0

\* C37: the stack of function names and the stack recursion is detected on
\* hold the same names, as many as current_stack_depth says, and
\* max_stack_depth is not below current_stack_depth.
C37_StacksAgreeWithDepth ==
    /\ tracer.function_frames = tracer.function_call_stack
    /\ Len(tracer.function_frames) = tracer.current_stack_depth
    /\ tracer.max_stack_depth >= tracer.current_stack_depth

\* C38: a result holds the first FLOW_RESPONSE_LIMIT positions of the
\* recorded flow or all of them when there are fewer, the first
\* SNAPSHOT_RESPONSE_LIMIT recorded snapshots likewise, each truncation flag
\* is true exactly when the recording was longer than the limit,
\* total_lines_executed is the length of the recorded flow and
\* unique_lines_executed is not above it.
C38_ResponseIsBoundedPrefix ==
    Returned =>
        LET n == Len(tracer.execution_flow)
            m == Len(tracer.variable_snapshots)
        IN  /\ IsPrefix(result.execution_flow, tracer.execution_flow)
            /\ Len(result.execution_flow) = MinOf(FLOW_RESPONSE_LIMIT, n)
            /\ result.execution_flow_truncated = (n > FLOW_RESPONSE_LIMIT)
            /\ Len(result.variable_snapshots)
                    = MinOf(SNAPSHOT_RESPONSE_LIMIT, m)
            /\ \A i \in 1..Len(result.variable_snapshots) :
                    result.variable_snapshots[i] =
                        [tracer.variable_snapshots[i] EXCEPT
                            !.value = SerializeValue(@)]
            /\ result.variable_snapshots_truncated
                    = (m > SNAPSHOT_RESPONSE_LIMIT)
            /\ result.total_lines_executed = n
            /\ result.unique_lines_executed <= result.total_lines_executed

\* A result of a run that recorded more flow positions and more snapshots
\* than the response holds, with a line executed twice: both flags are set
\* and the response holds the first position and the first snapshot.
C38_Witness ==
    /\ Returned
    /\ Len(tracer.execution_flow) > FLOW_RESPONSE_LIMIT
    /\ Len(tracer.variable_snapshots) > SNAPSHOT_RESPONSE_LIMIT
    /\ result.execution_flow_truncated
    /\ result.variable_snapshots_truncated
    /\ result.execution_flow = <<tracer.execution_flow[1]>>
    /\ Len(result.variable_snapshots) = 1
    /\ result.unique_lines_executed < result.total_lines_executed

====
